---- MODULE Spec2Model ----
(***************************************************************************)
(* Model of the tutoring session of Neuroadaptive-Tutor:                   *)
(*   - AudioPlayer (utils/audio.ts): play / pause / stop / getCurrentTime  *)
(*     over Web Audio buffer sources and their asynchronous "ended" events *)
(*   - TutoringSession (components/TutoringSession.tsx): the session state *)
(*     machine, the interruption pipeline and the quiz handlers            *)
(*   - decodeAudioData (utils/audio.ts): raw 16-bit PCM bytes to samples   *)
(*                                                                         *)
(* Time is discrete.  One tick stands for the 100 ms of the play-start     *)
(* timer.  Positions are in hundredths of a tick, so that the playback     *)
(* rates 0.9, 1.15 and 1.0 are the integers 90, 115 and 100.               *)
(* The "ended" event of a buffer source is dispatched within the tick in   *)
(* which the source stopped or ran out (it is a queued task, the timer     *)
(* waits 100 ms); promises of the platform and of the generation service   *)
(* (context resume, getUserMedia, service replies) settle after any delay. *)
(***************************************************************************)
EXTENDS Integers, Sequences, FiniteSets, TLC

\* ------------------------------------------------------------------ bounds
MaxTime == 5
MaxNodes == 3
MaxQuiz == 3
MaxSessionQuiz == 2
NumOptions == 3
LessonDur == 150
AnswerDur == 100
MaxBytes == 5

\* ------------------------------------------------------- program constants
RateNormal == 90
RateFast == 115
RateAnswer == 100
SKIPPED == -1

Players == {"lesson", "answer"}
NodeIds == 1..MaxNodes
NoTimer == -1
Pacings == {"NORMAL", "FAST"}

\* enum SessionState
SessionState ==
  {"LOADING", "PLAYING", "LISTENING", "PROCESSING", "ANSWERING",
   "QUIZ", "RATING", "FINISHED", "ERROR"}

VARIABLES
  now,              \* audioContext.currentTime / wall clock, in ticks
  player,           \* the two AudioPlayer objects behind audioPlayerRef / answerPlayerRef
  state,            \* useState<SessionState>
  mounted,          \* the TutoringSession component is mounted
  initPc,           \* position of init(): script, gen, decode, done, failed
  audioReady,       \* audioPromise has resolved
  quizReady,        \* quizPromise has resolved
  sessionData,      \* useState<TutoringSessionData | null>
  currentQuizIndex,
  quizScore,
  quizAnswers,
  isRecording,
  mediaRecorder,    \* mediaRecorderRef.current: none, recording, inactive
  capture,          \* getUserMedia promises in flight
  answerJobs,       \* answerLearnerQuestion calls in flight
  playTimer,        \* the setTimeout of the play-start effect: NoTimer or arming time
  pacing,           \* config.pacing
  appState,         \* App's appState
  sessionMode,      \* App's sessionMode, set through onModeChange
  results,          \* App's results
  lastOp,           \* history: the last quiz handler that ran
  beforeStep,       \* history: the quiz progress before the last answer or skip
  intr,             \* history: the last interruption (logged position, phase, outcome)
  lastEnded,        \* history: the last delivered "ended" event
  lastCall,         \* history: the last method called on the lesson player by itself
  callLog,          \* history of the lesson player driven by itself: see NoLog
  pcm,              \* a call of decodeAudioData: its bytes and its result, see NoPcm
  retryCall         \* a call of withRetry: its arguments, progress and outcome, see NoRetry

initVars == <<initPc, audioReady, quizReady, sessionData>>
quizVars == <<currentQuizIndex, quizScore, quizAnswers, lastOp, beforeStep>>
recVars == <<isRecording, mediaRecorder, capture, answerJobs>>
stateVars == <<state, playTimer, sessionMode>>
appVars == <<appState, results, pacing, mounted>>
vars == <<now, player, state, mounted, initPc, audioReady, quizReady, sessionData,
          currentQuizIndex, quizScore, quizAnswers, isRecording, mediaRecorder,
          capture, answerJobs, playTimer, pacing, appState, sessionMode, results,
          lastOp, beforeStep, intr, lastEnded, lastCall, callLog, pcm, retryCall>>

\* ------------------------------------------------------------- AudioPlayer

\* An AudioBufferSourceNode slot: free, rendering (started, "ended" not yet
\* dispatched) or stopped (stop() was called, "ended" not yet dispatched).
FreeNode == [st |-> "free", offset |-> 0, startedAt |-> 0]

\* The fields of class AudioPlayer.  buffer is the buffer's duration (0: null),
\* audioContext the context's state, source the node this.source refers to
\* (0: null), nodes the sources created by play(), waiting the callbacks of
\* the play() calls that await audioContext.resume().
NoPlayer ==
  [constructed |-> FALSE, audioContext |-> "suspended", source |-> 0,
   isPlaying |-> FALSE, pausedAt |-> 0, startTime |-> 0, buffer |-> 0,
   playbackRate |-> RateAnswer, onEndedCallback |-> "none",
   nodes |-> [i \in NodeIds |-> FreeNode], waiting |-> <<>>]

\* constructor(rate): the context starts suspended or running (browser policy)
NewPlayer(rate, ctx) ==
  [NoPlayer EXCEPT !.constructed = TRUE, !.playbackRate = rate, !.audioContext = ctx]

\* loadAudio(base64String), the decoding having succeeded
LoadAudio(pl, duration) == [pl EXCEPT !.buffer = duration]

FreeIds(pl) == {i \in NodeIds : pl.nodes[i].st = "free"}

AllocNode(pl) == CHOOSE i \in FreeIds(pl) : \A j \in FreeIds(pl) : i <= j

\* The source has rendered its buffer to the end at time t.
Exhausted(pl, i, t) ==
  pl.nodes[i].offset + (t - pl.nodes[i].startedAt) * pl.playbackRate >= pl.buffer

\* An "ended" event of node i is due: the node was stopped, or ran out.
EndedDue(pl, i, t) ==
  \/ pl.nodes[i].st = "stopped"
  \/ pl.nodes[i].st = "rendering" /\ Exhausted(pl, i, t)

\* The sources of the player that are audible at time t.
Rendering(pl, t) ==
  {i \in NodeIds : pl.nodes[i].st = "rendering" /\ ~Exhausted(pl, i, t)}

\* play(), from "this.onEndedCallback = onEnded || null" to the end
PlayBody(pl, cb, t) ==
  LET i == AllocNode(pl) IN
  [pl EXCEPT !.onEndedCallback = cb,
             !.source = i,
             !.nodes[i] = [st |-> "rendering", offset |-> pl.pausedAt, startedAt |-> t],
             !.startTime = t,
             !.isPlaying = TRUE]

\* play(onEnded): returns at once without a buffer, waits for resume() on a
\* suspended context, and starts a new source otherwise
Play(pl, cb, t) ==
  IF pl.buffer = 0 THEN pl
  ELSE IF pl.audioContext = "suspended" THEN [pl EXCEPT !.waiting = Append(@, cb)]
  ELSE PlayBody(pl, cb, t)

\* play() can take its step within the bounds of the model
CanPlay(pl) ==
  \/ pl.buffer = 0
  \/ pl.audioContext = "suspended" /\ Len(pl.waiting) < Cardinality(FreeIds(pl))
  \/ pl.audioContext = "running" /\ FreeIds(pl) # {}

RECURSIVE RunWaiting(_, _, _)
RunWaiting(pl, cbs, t) ==
  IF cbs = <<>> THEN pl ELSE RunWaiting(PlayBody(pl, Head(cbs), t), Tail(cbs), t)

\* audioContext.resume() settles: every play() waiting on it continues
Resumed(pl, t) ==
  RunWaiting([pl EXCEPT !.audioContext = "running", !.waiting = <<>>], pl.waiting, t)

PauseIgnoresFlag(pl, t) ==
  IF pl.source # 0
  THEN [pl EXCEPT !.pausedAt = @ + (t - pl.startTime) * pl.playbackRate,
                  !.isPlaying = FALSE,
                  !.nodes[pl.source].st = IF pl.isPlaying THEN "stopped" ELSE @,
                  !.source = 0]
  ELSE pl

PauseUnscaled(pl, t) ==
  IF pl.source # 0 /\ pl.isPlaying
  THEN [pl EXCEPT !.pausedAt = @ + (t - pl.startTime),
                  !.isPlaying = FALSE,
                  !.nodes[pl.source].st = "stopped",
                  !.source = 0]
  ELSE pl

\* pause()
Pause(pl, t) ==
  IF pl.source # 0 /\ pl.isPlaying
  THEN [pl EXCEPT !.pausedAt = @ + (t - pl.startTime) * pl.playbackRate,
                  !.isPlaying = FALSE,
                  !.nodes[pl.source].st = "stopped",
                  !.source = 0]
  ELSE pl

\* stop()
Stop(pl) ==
  IF pl.source # 0
  THEN [pl EXCEPT !.nodes[pl.source].st = IF pl.isPlaying THEN "stopped" ELSE @,
                  !.isPlaying = FALSE,
                  !.pausedAt = 0]
  ELSE pl

\* getCurrentTime()
GetCurrentTime(pl, t) ==
  IF pl.buffer = 0 THEN 0
  ELSE IF pl.isPlaying THEN pl.pausedAt + (t - pl.startTime) * pl.playbackRate
  ELSE pl.pausedAt

\* getDuration()
GetDuration(pl) == pl.buffer

ReadSyncsAnchor(pl, t) ==
  IF pl.isPlaying
  THEN [pl EXCEPT !.pausedAt = @ + (t - pl.startTime) * pl.playbackRate, !.startTime = t]
  ELSE pl

\* The player after getCurrentTime(), getDuration() or getFrequencyData():
\* none of them assigns a field (getFrequencyData fills a new array).
AfterRead(pl, t) == pl

\* source.onended of node i: the player after the handler
OnEndedGuarded(pl, i) ==
  IF pl.isPlaying
  THEN [pl EXCEPT !.isPlaying = FALSE, !.pausedAt = 0, !.nodes[i] = FreeNode]
  ELSE [pl EXCEPT !.nodes[i] = FreeNode]

\* source.onended of node i: whether the handler invokes onEndedCallback
OnEndedFires(pl, i) == pl.isPlaying /\ pl.onEndedCallback # "none"


\* --------------------------------------------------------- decodeAudioData

\* A sample of the channel data: the number num / den in lowest terms (the
\* quotient of a 16-bit integer by 32768 is exact in a Float32Array).
RECURSIVE Ratio(_, _)
Ratio(num, den) ==
  IF num = 0 THEN [num |-> 0, den |-> 1]
  ELSE IF num % 2 = 0 /\ den % 2 = 0 THEN Ratio(num \div 2, den \div 2)
  ELSE [num |-> num, den |-> den]

\* Element of an Int16Array over two bytes of the buffer (little-endian,
\* two's complement)
Int16Of(lo, hi) ==
  IF lo + 256 * hi >= 32768 THEN lo + 256 * hi - 65536 ELSE lo + 256 * hi

\* new Int16Array(bytes.buffer, 0, Math.floor(bytes.length / 2))
DataInt16(bytes) ==
  [i \in 1..(Len(bytes) \div 2) |-> Int16Of(bytes[2 * i - 1], bytes[2 * i])]

\* ---------------------------------------------------------------- withRetry

\* The default arguments of withRetry.
DefaultRetries == 3
DefaultDelay == 1000

\* The largest retries argument a call is made with.
MaxRetries == 3

\* The delay arguments a call is made with, in milliseconds.
Delays == {1, DefaultDelay}

\* The values an invocation of fn resolves with.
Values == {"a", "b"}

\* The errors an invocation of fn rejects with, by what the catch block
\* reads of them: status (0: the error has none) and the fragment that
\* message includes ("other": neither of the two).
Errors == [status : {0, 400, 500}, message : {"other", "Internal error", "Overloaded"}]

\* const isRetryable = ...
IsRetryable(error) ==
  \/ error.status >= 500
  \/ error.message = "Internal error"
  \/ error.message = "Overloaded"

\* No call of withRetry.  pc is call (fn is invoked and has not settled),
\* wait (the setTimeout of the catch block is pending), returned or thrown;
\* retries and delay are the parameters of the current activation, given
\* those of the outermost one; log holds the outcome of every invocation of
\* fn, waits the delays passed to setTimeout, result the value returned and
\* thrown the error thrown to the caller.
NoRetry ==
  [pc |-> "none", retries |-> 0, delay |-> 0, given |-> [retries |-> 0, delay |-> 0],
   log |-> <<>>, waits |-> <<>>, result |-> "none", thrown |-> [status |-> 0, message |-> "none"]]

\* return await fn(), fn having resolved with value v
FnResolved(rc, v) ==
  [rc EXCEPT !.pc = "returned", !.result = v, !.log = Append(@, [ok |-> TRUE, value |-> v])]

\* the catch block, fn having rejected with error: up to the await of the
\* timeout, or the throw
Caught(rc, error) ==
  IF rc.retries > 0 /\ IsRetryable(error)
  THEN [rc EXCEPT !.pc = "wait", !.waits = Append(@, rc.delay),
                  !.log = Append(@, [ok |-> FALSE, error |-> error])]
  ELSE [rc EXCEPT !.pc = "thrown", !.thrown = error,
                  !.log = Append(@, [ok |-> FALSE, error |-> error])]

RetryAgainSameDelay(rc) ==
  [rc EXCEPT !.pc = "call", !.retries = @ - 1]

\* return withRetry(fn, retries - 1, delay * 2): fn is invoked again
RetryAgain(rc) ==
  [rc EXCEPT !.pc = "call", !.retries = @ - 1, !.delay = @ * 2]

\* No call of decodeAudioData: st is bytes (the bytes of the base64 string
\* are given), samples (the samples to encode are given), decoded or failed;
\* given says which of the two was given, out is the channel data of the
\* buffer returned.
NoPcm == [st |-> "none", given |-> "none", samples |-> <<>>, bytes |-> <<>>, out |-> <<>>]

DecodeAudioDataUnsigned(p) ==
  LET n == Len(p.bytes) \div 2 IN
  IF n = 0
  THEN [p EXCEPT !.st = "failed"]
  ELSE [p EXCEPT !.st = "decoded",
                 !.out = [i \in 1..n |->
                            Ratio(p.bytes[2 * i - 1] + 256 * p.bytes[2 * i], 32768)]]

\* decodeAudioData on the bytes of its argument: createBuffer rejects a
\* length of zero frames; otherwise every 16-bit value is divided by 32768
DecodeAudioData(p) ==
  LET dataInt16 == DataInt16(p.bytes) IN
  IF Len(dataInt16) = 0
  THEN [p EXCEPT !.st = "failed"]
  ELSE [p EXCEPT !.st = "decoded",
                 !.out = [i \in 1..Len(dataInt16) |-> Ratio(dataInt16[i], 32768)]]

\* ------------------------------------------------------------- the session

\* The quizzes generateQuiz may return: the correctIndex of each question.
Quizzes ==
  UNION {[1..n -> 0..(NumOptions - 1)] : n \in 0..MaxQuiz}

\* The NASA-TLX forms the user may submit (each slider at either end).
Ratings ==
  {[mentalDemand |-> v, performance |-> 100 - v, effort |-> 50, frustration |-> v] :
     v \in {0, 100}}

\* The quizzes a session is run with: one of each length up to MaxSessionQuiz.
\* (QuizSpec runs the quiz handlers over every quiz of Quizzes.)
SessionQuizzes ==
  {[i \in 1..n |-> (i - 1) % NumOptions] : n \in 0..MaxSessionQuiz}

\* The options a learner picks in a session: the first and the last one.
SessionOptions == {0, NumOptions - 1}

\* The quiz progress (useState values of the quiz), and the value of
\* beforeStep when the last quiz call was not an answer or a skip.
QuizNow == [index |-> currentQuizIndex, score |-> quizScore, answers |-> quizAnswers]

NoStep == [index |-> 0 - 1, score |-> 0, answers |-> <<>>]

\* History of a player driven by itself: idle says that the last call was a
\* pause() of a player that was not playing, clean that stop() was not called
\* so far, played is the wall-clock time the player has spent playing (it
\* is kept until the first stop()).
NoLog == [idle |-> FALSE, played |-> 0, clean |-> TRUE]

\* History of the last interruption: pos is the position startInterruption
\* read (and logged) before pausing; phase is open from the interrupt request
\* to the setState(PLAYING) that ends it, closed until the lesson player next
\* starts a source, resumed after that; outcome says what ended it; answering
\* says whether setState(ANSWERING) was called.
NoIntr == [pos |-> 0, phase |-> "none", outcome |-> "none", answering |-> FALSE]

Closed(outcome) ==
  IF mounted THEN [intr EXCEPT !.phase = "closed", !.outcome = outcome] ELSE intr

\* the lesson player starts a source in this step
LessonStarts ==
  \E i \in NodeIds : /\ player["lesson"].nodes[i].st = "free"
                      /\ player'["lesson"].nodes[i].st = "rendering"

NoteResume ==
  intr' = IF LessonStarts /\ intr.phase = "closed"
          THEN [intr EXCEPT !.phase = "resumed"] ELSE intr
NoEnded == [kind |-> "none", fired |-> FALSE, who |-> "lesson"]

ModeOfQuizDefault(s) ==
  IF s = "PLAYING" THEN "explanation"
  ELSE IF s \in {"LISTENING", "PROCESSING", "ANSWERING"} THEN "interruption"
  ELSE "default"

\* "Update App Mode based on local State" effect
ModeOf(s) ==
  IF s = "PLAYING" THEN "explanation"
  ELSE IF s \in {"LISTENING", "PROCESSING", "ANSWERING"} THEN "interruption"
  ELSE IF s = "QUIZ" THEN "quiz"
  ELSE "default"

SetStateUnmounted(s) ==
  IF s # state
  THEN /\ state' = s
       /\ playTimer' = IF s = "PLAYING" /\ player["lesson"].constructed
                        THEN now ELSE NoTimer
       /\ sessionMode' = ModeOf(s)
  ELSE UNCHANGED stateVars

\* setState(s) with the effects that depend on state: the mode effect, and
\* the "Handle Play Start" effect (its cleanup clears the timer, its body
\* arms it when the new state is PLAYING and the lesson player exists).
\* A setState of an unmounted component, or to the current value, does nothing.
SetState(s) ==
  IF mounted /\ s # state
  THEN /\ state' = s
       /\ playTimer' = IF s = "PLAYING" /\ player["lesson"].constructed
                        THEN now ELSE NoTimer
       /\ sessionMode' = ModeOf(s)
  ELSE UNCHANGED stateVars

\* playbackRate of init()
LessonRate == IF pacing = "FAST" THEN RateFast ELSE RateNormal

\* The state in which the component mounts (useState initial values, refs).
Mounting ==
  /\ now = 0
  /\ player = [p \in Players |-> NoPlayer]
  /\ state = "LOADING"
  /\ mounted = TRUE
  /\ initPc = "script"
  /\ audioReady = "pending"
  /\ quizReady = [st |-> "pending", quiz |-> <<>>]
  /\ sessionData = [set |-> FALSE, quiz |-> <<>>]
  /\ currentQuizIndex = 0
  /\ quizScore = 0
  /\ quizAnswers = <<>>
  /\ lastOp = "none"
  /\ beforeStep = NoStep
  /\ isRecording = FALSE
  /\ mediaRecorder = "none"
  /\ capture = 0
  /\ answerJobs = 0
  /\ playTimer = NoTimer
  /\ appState = "TUTORING_SESSION"
  /\ sessionMode = "default"
  /\ results = <<>>
  /\ intr = NoIntr
  /\ lastEnded = NoEnded
  /\ lastCall = "none"
  /\ callLog = NoLog
  /\ pcm = NoPcm
  /\ retryCall = NoRetry

Init == Mounting /\ pacing \in Pacings

\* ---- init()

\* generateTutoringScript resolves; audioPromise is created, the stagger starts
ScriptGenerated ==
  /\ initPc = "script"
  /\ initPc' = "stagger"
  /\ UNCHANGED <<now, player, stateVars, audioReady, quizReady, sessionData, quizVars,
                 recVars, appVars, intr, lastEnded, lastCall, callLog, pcm, retryCall>>

\* generateTutoringScript rejects: the catch block
ScriptFailed ==
  /\ initPc = "script"
  /\ initPc' = "failed"
  /\ SetState("ERROR")
  /\ UNCHANGED <<now, player, audioReady, quizReady, sessionData, quizVars,
                 recVars, appVars, intr, lastEnded, lastCall, callLog, pcm, retryCall>>

\* generateTutoringAudio settles (it runs from the end of step 1 on)
AudioSettled ==
  /\ initPc \in {"stagger", "gen"}
  /\ audioReady = "pending"
  /\ audioReady' \in {"ok", "failed"}
  /\ UNCHANGED <<now, player, stateVars, initPc, quizReady, sessionData, quizVars,
                 recVars, appVars, intr, lastEnded, lastCall, callLog, pcm, retryCall>>

\* the 500 ms stagger is over: generateQuiz is called
StaggerElapsed ==
  /\ initPc = "stagger"
  /\ initPc' = "gen"
  /\ UNCHANGED <<now, player, stateVars, audioReady, quizReady, sessionData, quizVars,
                 recVars, appVars, intr, lastEnded, lastCall, callLog, pcm, retryCall>>

\* generateQuiz settles
QuizSettled ==
  /\ initPc = "gen"
  /\ quizReady.st = "pending"
  /\ \/ \E q \in SessionQuizzes : quizReady' = [st |-> "ok", quiz |-> q]
     \/ quizReady' = [st |-> "failed", quiz |-> <<>>]
  /\ UNCHANGED <<now, player, stateVars, initPc, audioReady, sessionData, quizVars,
                 recVars, appVars, intr, lastEnded, lastCall, callLog, pcm, retryCall>>

\* Promise.all rejects: the catch block
GenFailed ==
  /\ initPc = "gen"
  /\ audioReady = "failed" \/ quizReady.st = "failed"
  /\ initPc' = "failed"
  /\ SetState("ERROR")
  /\ UNCHANGED <<now, player, audioReady, quizReady, sessionData, quizVars,
                 recVars, appVars, intr, lastEnded, lastCall, callLog, pcm, retryCall>>

GenDoneWithoutQuiz ==
  /\ initPc = "gen"
  /\ audioReady = "ok"
  /\ initPc' = "decode"
  /\ sessionData' = [set |-> TRUE, quiz |-> quizReady.quiz]
  /\ \E ctx \in {"suspended", "running"} :
       player' = [player EXCEPT !["lesson"] = NewPlayer(LessonRate, ctx)]
  /\ UNCHANGED <<now, stateVars, audioReady, quizReady, quizVars,
                 recVars, appVars, intr, lastEnded, lastCall, callLog, pcm, retryCall>>

\* Promise.all resolves: setSessionData, new AudioPlayer(playbackRate)
GenDone ==
  /\ initPc = "gen"
  /\ audioReady = "ok" /\ quizReady.st = "ok"
  /\ initPc' = "decode"
  /\ sessionData' = [set |-> TRUE, quiz |-> quizReady.quiz]
  /\ \E ctx \in {"suspended", "running"} :
       player' = [player EXCEPT !["lesson"] = NewPlayer(LessonRate, ctx)]
  /\ UNCHANGED <<now, stateVars, audioReady, quizReady, quizVars,
                 recVars, appVars, intr, lastEnded, lastCall, callLog, pcm, retryCall>>

\* loadAudio resolves: setState(PLAYING)
LessonDecoded ==
  /\ initPc = "decode"
  /\ initPc' = "done"
  /\ player' = [player EXCEPT !["lesson"] = LoadAudio(@, LessonDur)]
  /\ SetState("PLAYING")
  /\ UNCHANGED <<now, audioReady, quizReady, sessionData, quizVars,
                 recVars, appVars, intr, lastEnded, lastCall, callLog, pcm, retryCall>>

\* loadAudio rejects (atob throws on the audio bytes): the catch block
LessonDecodeFailed ==
  /\ initPc = "decode"
  /\ initPc' = "failed"
  /\ SetState("ERROR")
  /\ UNCHANGED <<now, player, audioReady, quizReady, sessionData, quizVars,
                 recVars, appVars, intr, lastEnded, lastCall, callLog, pcm, retryCall>>

\* retryInit: window.location.reload() discards the page; the session the
\* user starts next mounts afresh
RetryInit ==
  /\ mounted /\ state = "ERROR"
  /\ now' = 0
  /\ player' = [p \in Players |-> NoPlayer]
  /\ state' = "LOADING"
  /\ mounted' = TRUE
  /\ initPc' = "script"
  /\ audioReady' = "pending"
  /\ quizReady' = [st |-> "pending", quiz |-> <<>>]
  /\ sessionData' = [set |-> FALSE, quiz |-> <<>>]
  /\ currentQuizIndex' = 0
  /\ quizScore' = 0
  /\ quizAnswers' = <<>>
  /\ lastOp' = "none"
  /\ beforeStep' = NoStep
  /\ isRecording' = FALSE
  /\ mediaRecorder' = "none"
  /\ capture' = 0
  /\ answerJobs' = 0
  /\ playTimer' = NoTimer
  /\ appState' = "TUTORING_SESSION"
  /\ sessionMode' = "default"
  /\ results' = <<>>
  /\ intr' = NoIntr
  /\ lastEnded' = NoEnded
  /\ lastCall' = "none"
  /\ callLog' = NoLog
  /\ pcm' = NoPcm
  /\ retryCall' = NoRetry
  /\ pacing' \in Pacings


\* The cleanup of the init effect and of the play-start effect, on unmount:
\* audioPlayerRef.current?.stop(); answerPlayerRef.current?.stop(); clearTimeout
Unmount ==
  /\ mounted' = FALSE
  /\ player' = [p \in Players |-> Stop(player[p])]
  /\ playTimer' = NoTimer

\* ---- "Handle Play Start" effect: the 100 ms timeout fires
PlayStartTimeout ==
  /\ mounted
  /\ playTimer # NoTimer
  /\ now >= playTimer + 1
  /\ CanPlay(player["lesson"])
  /\ player' = [player EXCEPT !["lesson"] = Play(@, "toQuiz", now)]
  /\ playTimer' = NoTimer
  /\ NoteResume
  /\ UNCHANGED <<now, state, sessionMode, initVars, quizVars, recVars, appVars, lastEnded, lastCall, callLog, pcm, retryCall>>

\* ---- the interruption pipeline

StartInterruptionUnguarded ==
  /\ mounted
  /\ player["lesson"].constructed
  /\ intr' = [pos |-> GetCurrentTime(player["lesson"], now), phase |-> "open",
              outcome |-> "none", answering |-> FALSE]
  /\ player' = [player EXCEPT !["lesson"] = Pause(@, now)]
  /\ SetState("LISTENING")
  /\ isRecording' = TRUE
  /\ capture' = capture + 1
  /\ UNCHANGED <<now, initVars, quizVars, mediaRecorder, answerJobs, appVars, lastEnded, lastCall, callLog, pcm, retryCall>>

\* startInterruption, up to the await of getUserMedia
StartInterruption ==
  /\ mounted
  /\ state = "PLAYING"
  /\ player["lesson"].constructed
  /\ intr' = [pos |-> GetCurrentTime(player["lesson"], now), phase |-> "open",
              outcome |-> "none", answering |-> FALSE]
  /\ player' = [player EXCEPT !["lesson"] = Pause(@, now)]
  /\ SetState("LISTENING")
  /\ isRecording' = TRUE
  /\ capture' = capture + 1
  /\ UNCHANGED <<now, initVars, quizVars, mediaRecorder, answerJobs, appVars, lastEnded, lastCall, callLog, pcm, retryCall>>

\* getUserMedia resolves: new MediaRecorder(stream), mediaRecorder.start()
CaptureStarted ==
  /\ capture > 0
  /\ capture' = capture - 1
  /\ mediaRecorder' = "recording"
  /\ UNCHANGED <<now, player, stateVars, initVars, quizVars, isRecording, answerJobs,
                 appVars, intr, lastEnded, lastCall, callLog, pcm, retryCall>>

CaptureFailedStaysListening ==
  /\ capture > 0
  /\ capture' = capture - 1
  /\ intr' = Closed("captureFailed")
  /\ UNCHANGED <<now, player, stateVars, initVars, quizVars, isRecording, mediaRecorder,
                 answerJobs, appVars, lastEnded, lastCall, callLog, pcm, retryCall>>

\* getUserMedia rejects: the catch block of startInterruption
CaptureFailed ==
  /\ capture > 0
  /\ capture' = capture - 1
  /\ SetState("PLAYING")
  /\ intr' = Closed("captureFailed")
  /\ UNCHANGED <<now, player, initVars, quizVars, isRecording, mediaRecorder, answerJobs,
                 appVars, lastEnded, lastCall, callLog, pcm, retryCall>>

StopInterruptionWhileAnswering ==
  /\ mounted
  /\ state \in {"LISTENING", "ANSWERING"}
  /\ SetState("PROCESSING")
  /\ IF mediaRecorder # "none" /\ isRecording
     THEN /\ mediaRecorder' = "inactive"
          /\ isRecording' = FALSE
          /\ answerJobs' = IF mediaRecorder = "recording" THEN answerJobs + 1 ELSE answerJobs
     ELSE UNCHANGED <<mediaRecorder, isRecording, answerJobs>>
  /\ UNCHANGED <<now, player, initVars, quizVars, capture, appVars, intr, lastEnded, lastCall, callLog, pcm, retryCall>>

\* stopInterruption (the button is rendered in LISTENING).  Stopping a
\* recording MediaRecorder fires onstop, which reads the blob and calls
\* answerLearnerQuestion; stop() on an inactive recorder does nothing.
StopInterruption ==
  /\ mounted
  /\ state = "LISTENING"
  /\ SetState("PROCESSING")
  /\ IF mediaRecorder # "none" /\ isRecording
     THEN /\ mediaRecorder' = "inactive"
          /\ isRecording' = FALSE
          /\ answerJobs' = IF mediaRecorder = "recording" THEN answerJobs + 1 ELSE answerJobs
     ELSE UNCHANGED <<mediaRecorder, isRecording, answerJobs>>
  /\ UNCHANGED <<now, player, initVars, quizVars, capture, appVars, intr, lastEnded, lastCall, callLog, pcm, retryCall>>

AnswerFailedFatal ==
  /\ answerJobs > 0
  /\ answerJobs' = answerJobs - 1
  /\ SetState("ERROR")
  /\ intr' = Closed("answerFailed")
  /\ UNCHANGED <<now, player, initVars, quizVars, isRecording, mediaRecorder, capture,
                 appVars, lastEnded, lastCall, callLog, pcm, retryCall>>

\* answerLearnerQuestion rejects: the catch block of processInterruption
AnswerFailed ==
  /\ answerJobs > 0
  /\ answerJobs' = answerJobs - 1
  /\ SetState("PLAYING")
  /\ intr' = Closed("answerFailed")
  /\ UNCHANGED <<now, player, initVars, quizVars, isRecording, mediaRecorder, capture,
                 appVars, lastEnded, lastCall, callLog, pcm, retryCall>>

\* answerLearnerQuestion resolves and the answer audio decodes:
\* setState(ANSWERING), new AudioPlayer(1.0), loadAudio, play
AnswerReady ==
  /\ answerJobs > 0
  /\ answerJobs' = answerJobs - 1
  /\ \E ctx \in {"suspended", "running"} :
       player' = [player EXCEPT !["answer"] =
                    Play(LoadAudio(NewPlayer(RateAnswer, ctx), AnswerDur), "toPlaying", now)]
  /\ SetState("ANSWERING")
  /\ intr' = IF mounted THEN [intr EXCEPT !.answering = TRUE] ELSE intr
  /\ UNCHANGED <<now, initVars, quizVars, isRecording, mediaRecorder, capture,
                 appVars, lastEnded, lastCall, callLog, pcm, retryCall>>

\* answerLearnerQuestion resolves but loadAudio rejects: setState(ANSWERING),
\* new AudioPlayer(1.0), then the catch block (both setState calls in one task)
AnswerDecodeFailed ==
  /\ answerJobs > 0
  /\ answerJobs' = answerJobs - 1
  /\ player' = [player EXCEPT !["answer"] = NewPlayer(RateAnswer, "suspended")]
  /\ SetState("PLAYING")
  /\ intr' = [Closed("decodeFailed") EXCEPT !.answering = mounted \/ @]
  /\ UNCHANGED <<now, initVars, quizVars, isRecording, mediaRecorder, capture,
                 appVars, lastEnded, lastCall, callLog, pcm, retryCall>>

\* ---- asynchronous events of the audio platform

\* audioContext.resume() of a player settles
ResumeResolved(p) ==
  /\ player[p].waiting # <<>>
  /\ player' = [player EXCEPT ![p] = Resumed(@, now)]
  /\ NoteResume
  /\ UNCHANGED <<now, stateVars, initVars, quizVars, recVars, appVars, lastEnded, lastCall, callLog, pcm, retryCall>>

\* the "ended" event of source i of player p is dispatched: source.onended,
\* and the callback given to play() when the handler invokes it
OnEnded(p, i) ==
  /\ EndedDue(player[p], i, now)
  /\ player' = [player EXCEPT ![p] = OnEndedGuarded(@, i)]
  /\ lastEnded' = [kind |-> IF player[p].nodes[i].st = "stopped" THEN "stopped" ELSE "natural",
                   fired |-> OnEndedFires(player[p], i),
                   who |-> p]
  /\ IF OnEndedFires(player[p], i) /\ player[p].onEndedCallback = "toQuiz"
       THEN SetState("QUIZ") /\ UNCHANGED intr
     ELSE IF OnEndedFires(player[p], i) /\ player[p].onEndedCallback = "toPlaying"
       THEN /\ SetState("PLAYING")
            /\ intr' = Closed("answered")
     ELSE UNCHANGED <<stateVars, intr>>
  /\ UNCHANGED <<now, initVars, quizVars, recVars, appVars, lastCall, callLog, pcm, retryCall>>

\* time passes; an "ended" event that is due is dispatched first
Tick ==
  /\ now < MaxTime
  /\ \A p \in Players : \A i \in NodeIds : ~EndedDue(player[p], i, now)
  /\ now' = now + 1
  /\ UNCHANGED <<player, stateVars, initVars, quizVars, recVars, appVars, intr, lastEnded, lastCall, callLog, pcm, retryCall>>

\* ---- the quiz

\* the QUIZ view renders sessionData.quiz[currentQuizIndex]
QuizRendered ==
  mounted /\ state = "QUIZ" /\ sessionData.set /\ currentQuizIndex < Len(sessionData.quiz)

\* question.question of an undefined question throws during render: React
\* unmounts the tree
QuizRenderThrows ==
  /\ mounted /\ state = "QUIZ" /\ sessionData.set
  /\ currentQuizIndex >= Len(sessionData.quiz)
  /\ Unmount
  /\ UNCHANGED <<now, state, sessionMode, initVars, quizVars, recVars, appState, results,
                 pacing, intr, lastEnded, lastCall, callLog, pcm, retryCall>>

HandleQuizAnswerAlwaysAdvances(optionIndex) ==
  /\ QuizRendered
  /\ LET isCorrect == optionIndex = sessionData.quiz[currentQuizIndex + 1]
         last == ~(currentQuizIndex < Len(sessionData.quiz) - 1)
     IN /\ quizScore' = IF isCorrect THEN quizScore + 1 ELSE quizScore
        /\ quizAnswers' = Append(quizAnswers, optionIndex)
        /\ lastOp' = "answer"
        /\ beforeStep' = QuizNow
        /\ currentQuizIndex' = currentQuizIndex + 1
        /\ IF last THEN SetState("RATING") ELSE UNCHANGED stateVars
  /\ UNCHANGED <<now, player, initVars, recVars, appVars, intr, lastEnded, lastCall, callLog, pcm, retryCall>>

HandleQuizAnswerCountsAll(optionIndex) ==
  /\ QuizRendered
  /\ LET last == ~(currentQuizIndex < Len(sessionData.quiz) - 1)
     IN /\ quizScore' = quizScore + 1
        /\ quizAnswers' = Append(quizAnswers, optionIndex)
        /\ lastOp' = "answer"
        /\ beforeStep' = QuizNow
        /\ currentQuizIndex' = IF last THEN currentQuizIndex ELSE currentQuizIndex + 1
        /\ IF last THEN SetState("RATING") ELSE UNCHANGED stateVars
  /\ UNCHANGED <<now, player, initVars, recVars, appVars, intr, lastEnded, lastCall, callLog, pcm, retryCall>>

\* handleQuizAnswer(optionIndex)
HandleQuizAnswer(optionIndex) ==
  /\ QuizRendered
  /\ LET isCorrect == optionIndex = sessionData.quiz[currentQuizIndex + 1]
         last == ~(currentQuizIndex < Len(sessionData.quiz) - 1)
     IN /\ quizScore' = IF isCorrect THEN quizScore + 1 ELSE quizScore
        /\ quizAnswers' = Append(quizAnswers, optionIndex)
        /\ lastOp' = "answer"
        /\ beforeStep' = QuizNow
        /\ currentQuizIndex' = IF last THEN currentQuizIndex ELSE currentQuizIndex + 1
        /\ IF last THEN SetState("RATING") ELSE UNCHANGED stateVars
  /\ UNCHANGED <<now, player, initVars, recVars, appVars, intr, lastEnded, lastCall, callLog, pcm, retryCall>>

HandleSkipAlwaysAdvances ==
  /\ QuizRendered
  /\ LET last == ~(currentQuizIndex < Len(sessionData.quiz) - 1)
     IN /\ quizAnswers' = Append(quizAnswers, SKIPPED)
        /\ lastOp' = "skip"
        /\ beforeStep' = QuizNow
        /\ currentQuizIndex' = currentQuizIndex + 1
        /\ IF last THEN SetState("RATING") ELSE UNCHANGED stateVars
  /\ UNCHANGED <<now, player, quizScore, initVars, recVars, appVars, intr, lastEnded, lastCall, callLog, pcm, retryCall>>

HandleSkipLosesPoint ==
  /\ QuizRendered
  /\ LET last == ~(currentQuizIndex < Len(sessionData.quiz) - 1)
     IN /\ quizAnswers' = Append(quizAnswers, SKIPPED)
        /\ quizScore' = IF quizScore > 0 THEN quizScore - 1 ELSE 0
        /\ lastOp' = "skip"
        /\ beforeStep' = QuizNow
        /\ currentQuizIndex' = IF last THEN currentQuizIndex ELSE currentQuizIndex + 1
        /\ IF last THEN SetState("RATING") ELSE UNCHANGED stateVars
  /\ UNCHANGED <<now, player, initVars, recVars, appVars, intr, lastEnded, lastCall, callLog, pcm, retryCall>>

\* handleSkip
HandleSkip ==
  /\ QuizRendered
  /\ LET last == ~(currentQuizIndex < Len(sessionData.quiz) - 1)
     IN /\ quizAnswers' = Append(quizAnswers, SKIPPED)
        /\ lastOp' = "skip"
        /\ beforeStep' = QuizNow
        /\ currentQuizIndex' = IF last THEN currentQuizIndex ELSE currentQuizIndex + 1
        /\ IF last THEN SetState("RATING") ELSE UNCHANGED stateVars
  /\ UNCHANGED <<now, player, quizScore, initVars, recVars, appVars, intr, lastEnded, lastCall, callLog, pcm, retryCall>>

Max0(n) == IF n > 0 THEN n ELSE 0

HandlePreviousKeepsScore ==
  /\ QuizRendered
  /\ currentQuizIndex # 0
  /\ quizScore' = quizScore
  /\ quizAnswers' = SubSeq(quizAnswers, 1, Len(quizAnswers) - 1)
  /\ currentQuizIndex' = currentQuizIndex - 1
  /\ lastOp' = "previous"
  /\ beforeStep' = NoStep
  /\ UNCHANGED <<now, player, stateVars, initVars, recVars, appVars, intr, lastEnded, lastCall, callLog, pcm, retryCall>>

HandlePreviousDropsPoint ==
  /\ QuizRendered
  /\ currentQuizIndex # 0
  /\ quizScore' = Max0(quizScore - 1)
  /\ quizAnswers' = SubSeq(quizAnswers, 1, Len(quizAnswers) - 1)
  /\ currentQuizIndex' = currentQuizIndex - 1
  /\ lastOp' = "previous"
  /\ beforeStep' = NoStep
  /\ UNCHANGED <<now, player, stateVars, initVars, recVars, appVars, intr, lastEnded, lastCall, callLog, pcm, retryCall>>

\* handlePreviousQuestion
HandlePreviousQuestion ==
  /\ QuizRendered
  /\ currentQuizIndex # 0
  /\ LET lastAnswerIndex == quizAnswers[Len(quizAnswers)]
         prevQuestion == sessionData.quiz[currentQuizIndex]
     IN quizScore' = IF lastAnswerIndex # SKIPPED /\ lastAnswerIndex = prevQuestion
                     THEN Max0(quizScore - 1) ELSE quizScore
  /\ quizAnswers' = SubSeq(quizAnswers, 1, Len(quizAnswers) - 1)
  /\ currentQuizIndex' = currentQuizIndex - 1
  /\ lastOp' = "previous"
  /\ beforeStep' = NoStep
  /\ UNCHANGED <<now, player, stateVars, initVars, recVars, appVars, intr, lastEnded, lastCall, callLog, pcm, retryCall>>

HandleRatingSubmitDropsScore(rating) ==
  /\ mounted /\ state = "RATING"
  /\ results' = Append(results, [pacing |-> pacing, quizScore |-> 0, rating |-> rating])
  /\ appState' = "FINISHED"
  /\ sessionMode' = "default"
  /\ Unmount
  /\ UNCHANGED <<now, state, initVars, quizVars, recVars, pacing, intr, lastEnded, lastCall, callLog, pcm, retryCall>>

\* handleRatingSubmit(rating): onSessionComplete is App's handleSessionComplete,
\* which leaves TUTORING_SESSION and so unmounts the session
HandleRatingSubmit(rating) ==
  /\ mounted /\ state = "RATING"
  /\ results' = Append(results, [pacing |-> pacing, quizScore |-> quizScore, rating |-> rating])
  /\ appState' = "FINISHED"
  /\ sessionMode' = "default"
  /\ Unmount
  /\ UNCHANGED <<now, state, initVars, quizVars, recVars, pacing, intr, lastEnded, lastCall, callLog, pcm, retryCall>>

Next ==
  \/ ScriptGenerated \/ ScriptFailed \/ AudioSettled \/ StaggerElapsed \/ QuizSettled
  \/ GenFailed \/ GenDone \/ LessonDecoded \/ LessonDecodeFailed \/ RetryInit
  \/ PlayStartTimeout \/ StartInterruption \/ CaptureStarted \/ CaptureFailed
  \/ StopInterruption \/ AnswerFailed \/ AnswerReady \/ AnswerDecodeFailed
  \/ \E p \in Players : ResumeResolved(p)
  \/ \E p \in Players : \E i \in NodeIds : OnEnded(p, i)
  \/ Tick
  \/ QuizRenderThrows
  \/ \E k \in SessionOptions : HandleQuizAnswer(k)
  \/ HandleSkip \/ HandlePreviousQuestion
  \/ \E r \in Ratings : HandleRatingSubmit(r)

Spec == Init /\ [][Next]_vars


\* ------------------------------------------------ the App shell and a session

\* The sessions completed before the results are cleared.
MaxSessions == 1

\* App as it mounts (useState initial values): the welcome view, no session
AppInit ==
  /\ pacing \in Pacings
  /\ now = 0
  /\ player = [p \in Players |-> NoPlayer]
  /\ state = "LOADING"
  /\ mounted = FALSE
  /\ initPc = "none"
  /\ audioReady = "pending"
  /\ quizReady = [st |-> "pending", quiz |-> <<>>]
  /\ sessionData = [set |-> FALSE, quiz |-> <<>>]
  /\ currentQuizIndex = 0
  /\ quizScore = 0
  /\ quizAnswers = <<>>
  /\ lastOp = "none"
  /\ beforeStep = NoStep
  /\ isRecording = FALSE
  /\ mediaRecorder = "none"
  /\ capture = 0
  /\ answerJobs = 0
  /\ playTimer = NoTimer
  /\ appState = "WELCOME"
  /\ sessionMode = "default"
  /\ results = <<>>
  /\ intr = NoIntr
  /\ lastEnded = NoEnded
  /\ lastCall = "none"
  /\ callLog = NoLog
  /\ pcm = NoPcm
  /\ retryCall = NoRetry

\* what the navigation handlers outside a session leave alone
shellFrame ==
  <<now, player, state, playTimer, initVars, quizVars, recVars, pacing, mounted,
    intr, lastEnded, lastCall, callLog, pcm, retryCall>>

\* startTutoringSetup (the button of the welcome view)
StartTutoringSetup ==
  /\ appState = "WELCOME"
  /\ appState' = "TUTORING_SETUP"
  /\ sessionMode' = "default"
  /\ UNCHANGED <<shellFrame, results>>

\* goBackToWelcome (the back button of the setup view)
GoBackToWelcome ==
  /\ appState = "TUTORING_SETUP"
  /\ appState' = "WELCOME"
  /\ sessionMode' = "default"
  /\ UNCHANGED <<shellFrame, results>>

\* startTutoringSession (the button of the setup view): TutoringSession
\* mounts with the configuration chosen, and its mode effect runs for LOADING
StartTutoringSession ==
  /\ appState = "TUTORING_SETUP"
  /\ Len(results) < MaxSessions
  /\ appState' = "TUTORING_SESSION"
  /\ pacing' \in Pacings
  /\ now' = 0
  /\ player' = [p \in Players |-> NoPlayer]
  /\ state' = "LOADING"
  /\ mounted' = TRUE
  /\ initPc' = "script"
  /\ audioReady' = "pending"
  /\ quizReady' = [st |-> "pending", quiz |-> <<>>]
  /\ sessionData' = [set |-> FALSE, quiz |-> <<>>]
  /\ currentQuizIndex' = 0
  /\ quizScore' = 0
  /\ quizAnswers' = <<>>
  /\ lastOp' = "none"
  /\ beforeStep' = NoStep
  /\ isRecording' = FALSE
  /\ mediaRecorder' = "none"
  /\ capture' = 0
  /\ answerJobs' = 0
  /\ playTimer' = NoTimer
  /\ sessionMode' = ModeOf("LOADING")
  /\ intr' = NoIntr
  /\ lastEnded' = NoEnded
  /\ UNCHANGED <<results, lastCall, callLog, pcm, retryCall>>

\* nextSession (a button of the finished view)
NextSession ==
  /\ appState = "FINISHED"
  /\ appState' = "TUTORING_SETUP"
  /\ sessionMode' = "default"
  /\ UNCHANGED <<shellFrame, results>>

\* restart (a button of the finished view)
Restart ==
  /\ appState = "FINISHED"
  /\ results' = <<>>
  /\ appState' = "WELCOME"
  /\ sessionMode' = "default"
  /\ UNCHANGED shellFrame

AppNext ==
  \/ Next
  \/ StartTutoringSetup \/ GoBackToWelcome \/ StartTutoringSession
  \/ NextSession \/ Restart

AppSpec == AppInit /\ [][AppNext]_vars


\* ------------------------------------------------- the quiz handlers alone

\* The session as it enters QUIZ: the lesson has played to its end, no
\* answer has been recorded.  The quiz is any quiz of Quizzes.
QuizInit ==
  /\ pacing \in Pacings
  /\ now = 3
  /\ player = [p \in Players |->
                 IF p = "lesson"
                 THEN [LoadAudio(NewPlayer(LessonRate, "running"), LessonDur)
                         EXCEPT !.source = 1, !.startTime = 1, !.onEndedCallback = "toQuiz"]
                 ELSE NoPlayer]
  /\ state = "QUIZ"
  /\ mounted = TRUE
  /\ initPc = "done"
  /\ audioReady = "ok"
  /\ \E q \in Quizzes : /\ quizReady = [st |-> "ok", quiz |-> q]
                        /\ sessionData = [set |-> TRUE, quiz |-> q]
  /\ currentQuizIndex = 0
  /\ quizScore = 0
  /\ quizAnswers = <<>>
  /\ lastOp = "none"
  /\ beforeStep = NoStep
  /\ isRecording = FALSE
  /\ mediaRecorder = "none"
  /\ capture = 0
  /\ answerJobs = 0
  /\ playTimer = NoTimer
  /\ appState = "TUTORING_SESSION"
  /\ sessionMode = "quiz"
  /\ results = <<>>
  /\ intr = NoIntr
  /\ lastEnded = [kind |-> "natural", fired |-> TRUE, who |-> "lesson"]
  /\ lastCall = "none"
  /\ callLog = NoLog
  /\ pcm = NoPcm
  /\ retryCall = NoRetry

QuizNext ==
  \/ QuizRenderThrows
  \/ \E k \in 0..(NumOptions - 1) : HandleQuizAnswer(k)
  \/ HandleSkip \/ HandlePreviousQuestion
  \/ \E r \in Ratings : HandleRatingSubmit(r)

QuizSpec == QuizInit /\ [][QuizNext]_vars

\* ------------------------------------------------- the AudioPlayer alone

\* One AudioPlayer, constructed at either lesson rate, driven by arbitrary
\* calls of its public methods; no session is mounted.
PlayerInit ==
  /\ pacing \in Pacings
  /\ now = 0
  /\ \E ctx \in {"suspended", "running"} :
       player = [p \in Players |->
                   IF p = "lesson" THEN NewPlayer(LessonRate, ctx) ELSE NoPlayer]
  /\ state = "LOADING"
  /\ mounted = FALSE
  /\ initPc = "script"
  /\ audioReady = "pending"
  /\ quizReady = [st |-> "pending", quiz |-> <<>>]
  /\ sessionData = [set |-> FALSE, quiz |-> <<>>]
  /\ currentQuizIndex = 0
  /\ quizScore = 0
  /\ quizAnswers = <<>>
  /\ lastOp = "none"
  /\ beforeStep = NoStep
  /\ isRecording = FALSE
  /\ mediaRecorder = "none"
  /\ capture = 0
  /\ answerJobs = 0
  /\ playTimer = NoTimer
  /\ appState = "TUTORING_SESSION"
  /\ sessionMode = "default"
  /\ results = <<>>
  /\ intr = NoIntr
  /\ lastEnded = NoEnded
  /\ lastCall = "none"
  /\ callLog = NoLog
  /\ pcm = NoPcm
  /\ retryCall = NoRetry

\* The read methods of AudioPlayer.
Reads == {"getCurrentTime", "getDuration", "getFrequencyData"}

sessionVars ==
  <<stateVars, initVars, quizVars, recVars, appVars, intr>>

\* loadAudio(base64String) is called and resolves
CallLoadAudio ==
  /\ player["lesson"].buffer = 0
  /\ player' = [player EXCEPT !["lesson"] = LoadAudio(@, LessonDur)]
  /\ lastCall' = "loadAudio"
  /\ callLog' = [callLog EXCEPT !.idle = FALSE]
  /\ UNCHANGED <<now, sessionVars, lastEnded, pcm, retryCall>>

\* play(onEnded) is called, with or without a callback
CallPlay(cb) ==
  /\ CanPlay(player["lesson"])
  /\ player' = [player EXCEPT !["lesson"] = Play(@, cb, now)]
  /\ lastCall' = "play"
  /\ callLog' = [callLog EXCEPT !.idle = FALSE]
  /\ UNCHANGED <<now, sessionVars, lastEnded, pcm, retryCall>>

\* pause() is called
CallPause ==
  /\ player' = [player EXCEPT !["lesson"] = Pause(@, now)]
  /\ lastCall' = "pause"
  /\ callLog' = [callLog EXCEPT !.idle = ~player["lesson"].isPlaying]
  /\ UNCHANGED <<now, sessionVars, lastEnded, pcm, retryCall>>

\* stop() is called
CallStop ==
  /\ player' = [player EXCEPT !["lesson"] = Stop(@)]
  /\ lastCall' = "stop"
  /\ callLog' = [idle |-> FALSE, played |-> 0, clean |-> FALSE]
  /\ UNCHANGED <<now, sessionVars, lastEnded, pcm, retryCall>>

\* getCurrentTime(), getDuration() or getFrequencyData() is called
CallRead(method) ==
  /\ player' = [player EXCEPT !["lesson"] = AfterRead(@, now)]
  /\ lastCall' = method
  /\ callLog' = [callLog EXCEPT !.idle = FALSE]
  /\ UNCHANGED <<now, sessionVars, lastEnded, pcm, retryCall>>

\* time passes for the player driven by itself (see Tick)
PlayerTick ==
  /\ now < MaxTime
  /\ \A i \in NodeIds : ~EndedDue(player["lesson"], i, now)
  /\ now' = now + 1
  /\ callLog' = [callLog EXCEPT !.played = IF player["lesson"].isPlaying /\ callLog.clean
                                         THEN @ + 1 ELSE @]
  /\ UNCHANGED <<player, sessionVars, lastEnded, pcm, lastCall, retryCall>>

PlayerNext ==
  \/ CallLoadAudio
  \/ \E cb \in {"none", "probe"} : CallPlay(cb)
  \/ CallPause
  \/ CallStop
  \/ \E method \in Reads : CallRead(method)
  \/ ResumeResolved("lesson")
  \/ \E i \in NodeIds : OnEnded("lesson", i)
  \/ PlayerTick

PlayerSpec == PlayerInit /\ [][PlayerNext]_vars


\* ------------------------------------------------- decodeAudioData alone

\* The bytes the buffers are made of, and the 16-bit values of the samples
\* that are encoded: the ends and the middle of their ranges.
Bytes == {0, 1, 127, 128, 255}

SampleValues == {0 - 32768, 0 - 1, 0, 1, 16384, 32767}

ByteBuffers == UNION {[1..n -> Bytes] : n \in 0..MaxBytes}

SampleBuffers ==
  UNION {[1..n -> {Ratio(v, 32768) : v \in SampleValues}] : n \in 0..(MaxBytes \div 2)}

\* The 16-bit PCM encoding of samples (little-endian, two's complement):
\* the format of the audio bytes that decodeAudioData is written for.
EncodePcm16(samples) ==
  LET value(i) == samples[i].num * (32768 \div samples[i].den)
      word(i) == IF value(i) < 0 THEN value(i) + 65536 ELSE value(i)
  IN [j \in 1..(2 * Len(samples)) |->
        IF j % 2 = 1 THEN word((j + 1) \div 2) % 256 ELSE word(j \div 2) \div 256]

\* One call of decodeAudioData, on given bytes or on the encoding of given
\* samples; no player is constructed, no session is mounted.
DecodeInit ==
  /\ pacing \in Pacings
  /\ now = 0
  /\ player = [p \in Players |-> NoPlayer]
  /\ state = "LOADING"
  /\ mounted = FALSE
  /\ initPc = "script"
  /\ audioReady = "pending"
  /\ quizReady = [st |-> "pending", quiz |-> <<>>]
  /\ sessionData = [set |-> FALSE, quiz |-> <<>>]
  /\ currentQuizIndex = 0
  /\ quizScore = 0
  /\ quizAnswers = <<>>
  /\ lastOp = "none"
  /\ beforeStep = NoStep
  /\ isRecording = FALSE
  /\ mediaRecorder = "none"
  /\ capture = 0
  /\ answerJobs = 0
  /\ playTimer = NoTimer
  /\ appState = "TUTORING_SESSION"
  /\ sessionMode = "default"
  /\ results = <<>>
  /\ intr = NoIntr
  /\ lastEnded = NoEnded
  /\ lastCall = "none"
  /\ callLog = NoLog
  /\ retryCall = NoRetry
  /\ \/ \E b \in ByteBuffers :
          pcm = [NoPcm EXCEPT !.st = "bytes", !.given = "bytes", !.bytes = b]
     \/ \E x \in SampleBuffers :
          pcm = [NoPcm EXCEPT !.st = "samples", !.given = "samples", !.samples = x]

\* the samples are encoded as 16-bit PCM
EncodeSamples ==
  /\ pcm.st = "samples"
  /\ pcm' = [pcm EXCEPT !.st = "bytes", !.bytes = EncodePcm16(pcm.samples)]
  /\ UNCHANGED <<now, player, sessionVars, lastEnded, lastCall, callLog, retryCall>>

\* decodeAudioData is called on the bytes
CallDecodeAudioData ==
  /\ pcm.st = "bytes"
  /\ pcm' = DecodeAudioData(pcm)
  /\ UNCHANGED <<now, player, sessionVars, lastEnded, lastCall, callLog, retryCall>>

DecodeNext == EncodeSamples \/ CallDecodeAudioData

DecodeSpec == DecodeInit /\ [][DecodeNext]_vars

\* One call of withRetry(fn, retries, delay); no player is constructed, no
\* session is mounted.  fn is invoked at once.
WithRetryInit ==
  /\ pacing \in Pacings
  /\ now = 0
  /\ player = [p \in Players |-> NoPlayer]
  /\ state = "LOADING"
  /\ mounted = FALSE
  /\ initPc = "script"
  /\ audioReady = "pending"
  /\ quizReady = [st |-> "pending", quiz |-> <<>>]
  /\ sessionData = [set |-> FALSE, quiz |-> <<>>]
  /\ currentQuizIndex = 0
  /\ quizScore = 0
  /\ quizAnswers = <<>>
  /\ lastOp = "none"
  /\ beforeStep = NoStep
  /\ isRecording = FALSE
  /\ mediaRecorder = "none"
  /\ capture = 0
  /\ answerJobs = 0
  /\ playTimer = NoTimer
  /\ appState = "TUTORING_SESSION"
  /\ sessionMode = "default"
  /\ results = <<>>
  /\ intr = NoIntr
  /\ lastEnded = NoEnded
  /\ lastCall = "none"
  /\ callLog = NoLog
  /\ pcm = NoPcm
  /\ \E r \in 0..MaxRetries : \E d \in Delays :
       retryCall = [NoRetry EXCEPT !.pc = "call", !.retries = r, !.delay = d,
                                   !.given = [retries |-> r, delay |-> d]]

\* the promise of fn() is fulfilled
FnFulfils(v) ==
  /\ retryCall.pc = "call"
  /\ retryCall' = FnResolved(retryCall, v)
  /\ UNCHANGED <<now, player, sessionVars, lastEnded, lastCall, callLog, pcm>>

\* the promise of fn() is rejected
FnRejects(error) ==
  /\ retryCall.pc = "call"
  /\ retryCall' = Caught(retryCall, error)
  /\ UNCHANGED <<now, player, sessionVars, lastEnded, lastCall, callLog, pcm>>

\* the timeout of the catch block fires
RetryTimeout ==
  /\ retryCall.pc = "wait"
  /\ retryCall' = RetryAgain(retryCall)
  /\ UNCHANGED <<now, player, sessionVars, lastEnded, lastCall, callLog, pcm>>

WithRetryNext ==
  \/ \E v \in Values : FnFulfils(v)
  \/ \E error \in Errors : FnRejects(error)
  \/ RetryTimeout

\* Every promise of fn settles and every timeout fires.
WithRetrySpec == WithRetryInit /\ [][WithRetryNext]_vars /\ WF_vars(WithRetryNext)


\* ------------------------------------------------------------- properties

\* The (from, to) pairs of the session's transition table.
TransitionTable ==
  {<<"LOADING", "PLAYING">>, <<"LOADING", "ERROR">>, <<"PLAYING", "QUIZ">>,
   <<"PLAYING", "LISTENING">>, <<"LISTENING", "PLAYING">>,
   <<"LISTENING", "PROCESSING">>, <<"PROCESSING", "ANSWERING">>,
   <<"PROCESSING", "PLAYING">>, <<"ANSWERING", "PLAYING">>, <<"QUIZ", "QUIZ">>,
   <<"QUIZ", "RATING">>, <<"RATING", "FINISHED">>, <<"ERROR", "LOADING">>}

\* The offset at which the lesson player starts its source in this step.
StartOffset ==
  LET i == CHOOSE i \in NodeIds : /\ player["lesson"].nodes[i].st = "free"
                                  /\ player'["lesson"].nodes[i].st = "rendering"
  IN player'["lesson"].nodes[i].offset

\* The track of player p is audible.
Audible(p) == Rendering(player[p], now) # {}

\* C1: every change of the session state is one of the pairs of the
\* transition table, under any interleaving of requests, audio events,
\* capture outcomes and service replies.
C1_OnlyTableTransitions ==
  [][state' # state => <<state, state'>> \in TransitionTable]_vars

\* C2: when an interruption ends with its answer audio played to the end,
\* the lesson player next starts at the position read when the interrupt
\* request paused it, whatever time passed in between.
C2_ResumeAtInterruptPosition ==
  [][LessonStarts /\ intr.phase = "closed" /\ intr.outcome = "answered"
       => StartOffset = intr.pos]_vars

\* An answered interruption taken after the lesson had advanced, and the
\* lesson playing again after it.
C2_Witness ==
  /\ intr.phase = "resumed" /\ intr.outcome = "answered" /\ intr.answering
  /\ intr.pos > 0
  /\ state = "PLAYING" /\ player["lesson"].isPlaying
  /\ now > player["lesson"].startTime

\* C3: the lesson track and the answer track are never both playing: not
\* as rendering sources, and not by the players' isPlaying flags.
C3_TracksExclusive ==
  /\ ~(Audible("lesson") /\ Audible("answer"))
  /\ ~(player["lesson"].isPlaying /\ player["answer"].isPlaying)

\* C4: the callback given to play() is invoked only by the end event of a
\* source that ran out of buffer, never by the end event of a source that
\* pause() or stop() stopped.
C4_CallbackOnlyOnNaturalEnd ==
  lastEnded.fired => lastEnded.kind = "natural"

\* C5: after every answer, skip or previous call the score is the number of
\* recorded answers that are not the skip sentinel and equal the correct
\* index of their question.
C5_ScoreCountsCorrectAnswers ==
  quizScore =
    Cardinality({i \in 1..Len(quizAnswers) :
                   /\ i <= Len(sessionData.quiz)
                   /\ quizAnswers[i] # SKIPPED
                   /\ quizAnswers[i] = sessionData.quiz[i]})

\* A previous call has just taken back the second answer, the first one
\* being correct and still recorded.
C5_Witness ==
  /\ lastOp = "previous"
  /\ quizScore = 1
  /\ Len(quizAnswers) = 1
  /\ quizAnswers[1] = sessionData.quiz[1]

\* C6 (as stated): at every stable point of the quiz, the finalizing call
\* included, the number of recorded answers equals the current index.
C6_AnswersEqualIndex ==
  Len(quizAnswers) = currentQuizIndex

\* the quiz handler taken in this step
QuizCall ==
  \/ \E k \in 0..(NumOptions - 1) : HandleQuizAnswer(k)
  \/ HandleSkip
  \/ HandlePreviousQuestion

\* C6 (amended): a quiz call made with as many recorded answers as the
\* current index leaves them equal, except the call that finalizes the
\* quiz: it records the last answer without advancing the index, so that
\* the answers are one more than the index and as many as the questions.
C6_AnswersEqualIndexUntilFinal ==
  [][QuizCall /\ Len(quizAnswers) = currentQuizIndex =>
       IF state' = "RATING"
       THEN /\ currentQuizIndex' = currentQuizIndex
            /\ Len(quizAnswers') = currentQuizIndex' + 1
            /\ Len(quizAnswers') = Len(sessionData.quiz)
       ELSE Len(quizAnswers') = currentQuizIndex']_vars

\* The quiz of at least two questions has been finalized.
C6_Witness ==
  /\ mounted /\ state = "RATING"
  /\ Len(quizAnswers) >= 2
  /\ Len(quizAnswers) = currentQuizIndex + 1

\* C7: when the answer service fails after a capture, the session goes
\* from PROCESSING to PLAYING, the lesson next starts at the position of
\* the interrupt, and ANSWERING was not entered in that interruption.
C7_AnswerFailureResumes ==
  [][ /\ (AnswerFailed /\ mounted => state = "PROCESSING" /\ state' = "PLAYING")
      /\ (LessonStarts /\ intr.phase = "closed" /\ intr.outcome = "answerFailed"
            => StartOffset = intr.pos)
      /\ (intr'.outcome = "answerFailed" => ~intr'.answering) ]_vars

\* C8: when the capture cannot start, the session goes back to PLAYING and
\* the lesson player next starts at the position of the interrupt.
C8_CaptureFailureKeepsPosition ==
  [][ /\ (CaptureFailed /\ mounted => state' = "PLAYING")
      /\ (LessonStarts /\ intr.phase = "closed" /\ intr.outcome = "captureFailed"
            => StartOffset = intr.pos) ]_vars

\* The capture failed after the lesson had advanced, and the lesson is
\* playing again.
C8_Witness ==
  /\ intr.phase = "resumed" /\ intr.outcome = "captureFailed"
  /\ intr.pos > 0
  /\ state = "PLAYING" /\ player["lesson"].isPlaying
  /\ now > player["lesson"].startTime

\* C9: a failure during LOADING moves the session to ERROR; ERROR is
\* entered only from LOADING; a failure of the capture, of the answer
\* service or of the answer decoding neither moves the session to ERROR
\* nor ends it.
C9_OnlyLoadingFailuresAreFatal ==
  [][ /\ (ScriptFailed \/ GenFailed \/ LessonDecodeFailed => state' = "ERROR")
      /\ (state' = "ERROR" /\ state # "ERROR" => state = "LOADING")
      /\ (CaptureFailed \/ AnswerFailed \/ AnswerDecodeFailed =>
            /\ state' # "ERROR"
            /\ mounted' = mounted
            /\ appState' = appState) ]_vars

\* The lesson audio failed to decode: the session is in ERROR.
C9_Witness ==
  /\ state = "ERROR" /\ initPc = "failed"
  /\ player["lesson"].constructed /\ player["lesson"].buffer = 0

\* C10: after teardown neither track is playing and no recording is
\* active, whatever was pending when the session was torn down.
C10_NothingRunsAfterTeardown ==
  ~mounted =>
    /\ ~Audible("lesson") /\ ~Audible("answer")
    /\ \A p \in Players : ~player[p].isPlaying
    /\ mediaRecorder # "recording"

\* C11: with an empty quiz, the natural end of the lesson in PLAYING takes
\* the session to RATING, not to a QUIZ state.
C11_EmptyQuizGoesToRating ==
  [][ /\ \E i \in NodeIds : OnEnded("lesson", i)
      /\ state = "PLAYING" /\ state' # state
      /\ sessionData.set /\ sessionData.quiz = <<>>
      => state' = "RATING" ]_vars

\* The quiz of the worked scenario: the correct index of each question.
ScenarioQuiz == <<1, 0, 2>>

\* The quiz of the scenario is shown with this index, score and answers.
QuizAt(index, score, answers) ==
  /\ QuizRendered
  /\ sessionData.quiz = ScenarioQuiz
  /\ QuizNow = [index |-> index, score |-> score, answers |-> answers]

\* The step leaves this index, score and answers.
QuizBecomes(index, score, answers) ==
  /\ currentQuizIndex' = index
  /\ quizScore' = score
  /\ quizAnswers' = answers

\* C12 (as stated): on the quiz [1,0,2], answer(1), answer(0), previous()
\* lead from (0, 0, []) to index 1, score 1, answers [1], and the answer(0)
\* that follows ends with index 1, score 1 and answers [1].
C12_ScenarioEndsAtOne ==
  [][ /\ (QuizAt(0, 0, <<>>) /\ HandleQuizAnswer(1) => QuizBecomes(1, 1, <<1>>))
      /\ (QuizAt(2, 2, <<1, 0>>) /\ HandlePreviousQuestion => QuizBecomes(1, 1, <<1>>))
      /\ (QuizAt(1, 1, <<1>>) /\ HandleQuizAnswer(0) => QuizBecomes(1, 1, <<1>>)) ]_vars

\* C12 (amended): answer(1), answer(0), previous() lead from (0, 0, []) to
\* index 1, score 1, answers [1]; the answer(0) that follows is recorded and
\* scored: the sequence ends with index 2, score 2 and answers [1, 0].
C12_ScenarioEndsAtTwo ==
  [][ /\ (QuizAt(0, 0, <<>>) /\ HandleQuizAnswer(1) => QuizBecomes(1, 1, <<1>>))
      /\ (QuizAt(2, 2, <<1, 0>>) /\ HandlePreviousQuestion => QuizBecomes(1, 1, <<1>>))
      /\ (QuizAt(1, 1, <<1>>) /\ HandleQuizAnswer(0) => QuizBecomes(2, 2, <<1, 0>>)) ]_vars

\* The second question of the scenario has been answered again after a
\* previous call: the last answer was given at index 1, score 1, answers [1].
C12_Witness ==
  /\ QuizAt(2, 2, <<1, 0>>)
  /\ lastOp = "answer"
  /\ beforeStep = [index |-> 1, score |-> 1, answers |-> <<1>>]

\* C13 (as stated): on the quiz [1,0,2], from index 1, score 1, answers [1],
\* skip() and answer(2) give index 3, answers [1,-1,2], score 2 and RATING.
C13_ScenarioEndsAtThree ==
  [][ /\ (QuizAt(1, 1, <<1>>) /\ HandleSkip => QuizBecomes(2, 1, <<1, SKIPPED>>))
      /\ (QuizAt(2, 1, <<1, SKIPPED>>) /\ HandleQuizAnswer(2) =>
            QuizBecomes(3, 2, <<1, SKIPPED, 2>>) /\ state' = "RATING") ]_vars

\* C13 (amended): skip() and answer(2) give answers [1,-1,2], score 2 and
\* RATING, with the index left at 2, the index of the last question.
C13_ScenarioEndsAtLastIndex ==
  [][ /\ (QuizAt(1, 1, <<1>>) /\ HandleSkip => QuizBecomes(2, 1, <<1, SKIPPED>>))
      /\ (QuizAt(2, 1, <<1, SKIPPED>>) /\ HandleQuizAnswer(2) =>
            QuizBecomes(2, 2, <<1, SKIPPED, 2>>) /\ state' = "RATING") ]_vars

\* The scenario has been finalized by answer(2) after the skip.
C13_Witness ==
  /\ mounted /\ state = "RATING"
  /\ sessionData.quiz = ScenarioQuiz
  /\ QuizNow = [index |-> 2, score |-> 2, answers |-> <<1, SKIPPED, 2>>]
  /\ beforeStep = [index |-> 2, score |-> 1, answers |-> <<1, SKIPPED>>]

\* C14: previous() changes nothing at index 0; called right after an
\* answer(k) or a skip() on a question that is not the last, it restores
\* the index, the score and the answer list to their values before that
\* call; the score is never negative.
C14_PreviousInvertsLastStep ==
  [][ /\ (HandlePreviousQuestion => currentQuizIndex > 0)
      /\ (HandlePreviousQuestion /\ beforeStep # NoStep
            /\ beforeStep.index < Len(sessionData.quiz) - 1 => QuizNow' = beforeStep)
      /\ quizScore' >= 0 ]_vars

\* A previous call has taken back a correct answer given to the second
\* question after a wrong answer to the first.
C14_Witness ==
  /\ lastOp = "previous"
  /\ currentQuizIndex = 1 /\ quizScore = 0 /\ Len(quizAnswers) = 1
  /\ quizAnswers[1] # SKIPPED /\ quizAnswers[1] # sessionData.quiz[1]
  /\ Len(sessionData.quiz) = MaxQuiz

\* The advance/finalize rule of a forward quiz call: on a question that is
\* not the last the index grows by one and the session stays in QUIZ; on
\* the last question the session moves to RATING.
AdvancesOrFinalizes ==
  IF currentQuizIndex < Len(sessionData.quiz) - 1
  THEN currentQuizIndex' = currentQuizIndex + 1 /\ state' = "QUIZ"
  ELSE state' = "RATING"

\* C15: answer(k) appends k to the answers, adds one to the score exactly
\* when k is the correct index of the current question, and advances the
\* index by one within QUIZ, or moves to RATING on the last question.
C15_AnswerRecordsScoresAdvances ==
  [][\A k \in 0..(NumOptions - 1) :
       HandleQuizAnswer(k) =>
         /\ quizAnswers' = Append(quizAnswers, k)
         /\ quizScore' = quizScore +
              (IF k = sessionData.quiz[currentQuizIndex + 1] THEN 1 ELSE 0)
         /\ AdvancesOrFinalizes]_vars

\* A wrong answer to the last question of a quiz of several questions has
\* finalized the quiz, after a correct answer before it.
C15_Witness ==
  /\ mounted /\ state = "RATING" /\ lastOp = "answer"
  /\ Len(quizAnswers) >= 2
  /\ quizScore = beforeStep.score /\ quizScore > 0
  /\ quizAnswers[Len(quizAnswers)] # SKIPPED

\* C16: skip() appends the skip sentinel to the answers, follows the
\* advance/finalize rule of answer, and leaves the score unchanged.
C16_SkipRecordsSentinelKeepsScore ==
  [][HandleSkip =>
       /\ quizAnswers' = Append(quizAnswers, SKIPPED)
       /\ quizScore' = quizScore
       /\ AdvancesOrFinalizes]_vars

\* A skip of the last question has finalized a quiz with a positive score.
C16_Witness ==
  /\ mounted /\ state = "RATING" /\ lastOp = "skip"
  /\ quizScore > 0
  /\ quizAnswers[Len(quizAnswers)] = SKIPPED

\* C17: submitting a rating in RATING moves the session state to FINISHED
\* and hands the caller one result made of the configuration, the final
\* quiz score and the submitted rating.
C17_RatingFinishesSession ==
  [][\A r \in Ratings :
       HandleRatingSubmit(r) =>
         /\ state' = "FINISHED"
         /\ results' = Append(results, [pacing |-> pacing, quizScore |-> quizScore,
                                        rating |-> r])
         /\ pacing' = pacing]_vars

\* C17 (the hand-over alone): submitting a rating appends exactly one
\* result, made of the configuration, the final quiz score and the rating,
\* to the results of the caller, which moves to its own FINISHED state.
C17_RatingHandsOverResult ==
  [][\A r \in Ratings :
       HandleRatingSubmit(r) =>
         /\ appState' = "FINISHED"
         /\ results' = Append(results, [pacing |-> pacing, quizScore |-> quizScore,
                                        rating |-> r])
         /\ pacing' = pacing]_vars

\* The rating of a session with a positive quiz score has been submitted:
\* the caller holds its one result and has left the session.
C17_Witness ==
  /\ ~mounted /\ appState = "FINISHED" /\ state = "RATING"
  /\ Len(results) = 1
  /\ results[1].quizScore = quizScore /\ quizScore > 0
  /\ results[1].pacing = pacing

\* C18: an interrupt request takes effect only in PLAYING: there the
\* lesson player is paused at its current position and the state becomes
\* LISTENING, the answer player being left alone; in no other state does
\* the request change the state, a player or the recording.
C18_InterruptOnlyInPlaying ==
  [][StartInterruption =>
       /\ state = "PLAYING" /\ state' = "LISTENING"
       /\ ~player'["lesson"].isPlaying
       /\ player'["lesson"].pausedAt = GetCurrentTime(player["lesson"], now)
       /\ player'["answer"] = player["answer"]]_vars

\* The learner has interrupted a lesson that was playing and had advanced.
C18_Witness ==
  /\ state = "LISTENING" /\ intr.phase = "open" /\ intr.pos > 0
  /\ player["lesson"].pausedAt = intr.pos
  /\ ~player["lesson"].isPlaying
  /\ capture > 0

C20_StopResetsPosition ==
  [][CallStop => /\ ~player'["lesson"].isPlaying
                 /\ player'["lesson"].pausedAt = 0]_vars

\* C21: pause() on a player that is not playing changes nothing (paused
\* offset, anchor timestamp, playing flag), and while a player is paused
\* its reported position stays the same however much time passes.
C21_PauseIdleAndFrozen ==
  [][ /\ (CallPause /\ ~player["lesson"].isPlaying =>
            /\ player'["lesson"].pausedAt = player["lesson"].pausedAt
            /\ player'["lesson"].startTime = player["lesson"].startTime
            /\ player'["lesson"].isPlaying = player["lesson"].isPlaying)
      /\ (~player["lesson"].isPlaying /\ ~player'["lesson"].isPlaying /\ now' # now =>
            GetCurrentTime(player'["lesson"], now') = GetCurrentTime(player["lesson"], now))
    ]_vars

\* pause() has been called on a player that was already paused at a
\* position after the start, and time has passed since it was paused.
C21_Witness ==
  /\ lastCall = "pause" /\ callLog.idle
  /\ ~player["lesson"].isPlaying /\ player["lesson"].pausedAt > 0
  /\ (now - player["lesson"].startTime) * player["lesson"].playbackRate
       > player["lesson"].pausedAt

\* C22: at a fixed rate, with no stop() and no source run out of buffer,
\* the position reported right after a pause() is the wall-clock time the
\* player has spent playing, times the rate.
C22_PausePositionIsScaledPlayTime ==
  [][CallPause /\ callLog.clean
       /\ callLog.played * player["lesson"].playbackRate < GetDuration(player["lesson"])
       => GetCurrentTime(player'["lesson"], now')
            = callLog.played * player["lesson"].playbackRate]_vars

\* C23: the reported position is always between 0 and the duration, also
\* between the buffer running out and the delivery of the end event and
\* after a pause() made there; while the player is playing it never
\* decreases.
C23_PositionWithinDuration ==
  [][ /\ GetCurrentTime(player'["lesson"], now') >= 0
      /\ GetCurrentTime(player'["lesson"], now') <= GetDuration(player'["lesson"])
      /\ (player["lesson"].isPlaying /\ player'["lesson"].isPlaying =>
            GetCurrentTime(player'["lesson"], now') >= GetCurrentTime(player["lesson"], now))
    ]_vars

\* C24: after every change of the session state the mode reported to the
\* caller is the one of the new state: explanation for PLAYING,
\* interruption for LISTENING, PROCESSING and ANSWERING, quiz for QUIZ,
\* default for LOADING, RATING, FINISHED and ERROR.
C24_ModeFollowsState ==
  [][state' # state =>
       /\ (state' = "PLAYING" => sessionMode' = "explanation")
       /\ (state' \in {"LISTENING", "PROCESSING", "ANSWERING"} =>
             sessionMode' = "interruption")
       /\ (state' = "QUIZ" => sessionMode' = "quiz")
       /\ (state' \in {"LOADING", "RATING", "FINISHED", "ERROR"} =>
             sessionMode' = "default")]_vars

\* The session has gone through an answered interruption and the quiz and
\* is in RATING: the mode is back to default.
C24_Witness ==
  /\ mounted /\ state = "RATING" /\ sessionMode = "default"
  /\ intr.outcome = "answered" /\ Len(quizAnswers) > 0

\* C25: when the answer service replies but the answer audio fails to
\* decode, the session goes from PROCESSING directly to PLAYING, as for a
\* failure of the answer service, and the lesson next starts at the
\* position at which the interrupt request paused it.
C25_DecodeFailureResumes ==
  [][ /\ (AnswerDecodeFailed /\ mounted => state = "PROCESSING" /\ state' = "PLAYING")
      /\ (LessonStarts /\ intr.phase = "closed" /\ intr.outcome = "decodeFailed"
            => StartOffset = intr.pos) ]_vars

\* C26: a recording capture is active only while the lesson track is
\* paused and the answer track is not playing: no recording is active
\* while either track is playing.
C26_RecordingExcludesPlayback ==
  mediaRecorder = "recording" =>
    /\ ~player["lesson"].isPlaying /\ ~Audible("lesson")
    /\ ~player["answer"].isPlaying /\ ~Audible("answer")

\* C27: when the answer audio has played to its end, the answer player is
\* disposed before the lesson resumes: its audio context is closed or the
\* player is dropped, so that no answer player of an earlier interruption
\* stays alive.
C27_AnswerPlayerDisposed ==
  [][\A i \in NodeIds :
       OnEnded("answer", i) /\ OnEndedFires(player["answer"], i)
         /\ player["answer"].nodes[i].st = "rendering"
       => \/ player'["answer"].audioContext = "closed"
          \/ ~player'["answer"].constructed]_vars

\* a request of the learner is handled in this step
UserTrigger ==
  \/ StartInterruption
  \/ StopInterruption
  \/ QuizCall
  \/ \E r \in Ratings : HandleRatingSubmit(r)
  \/ RetryInit

\* C28: no request is handled while the handling of an earlier one is
\* still in progress: in particular no stop-recording request is handled
\* while the capture start of the interrupt request is pending.
C28_OneTriggerAtATime ==
  [][UserTrigger => capture = 0]_vars

\* C29: reading the position, the duration or the spectrum of a player at
\* any time, also while it plays, changes nothing in the player (paused
\* offset, anchor timestamp, playing flag, registered callback, sources)
\* and nothing in the session.
C29_ReadsChangeNothing ==
  [][(\E method \in Reads : CallRead(method)) =>
       /\ player'["lesson"].pausedAt = player["lesson"].pausedAt
       /\ player'["lesson"].startTime = player["lesson"].startTime
       /\ player'["lesson"].isPlaying = player["lesson"].isPlaying
       /\ player'["lesson"].onEndedCallback = player["lesson"].onEndedCallback
       /\ player' = player
       /\ GetCurrentTime(player'["lesson"], now') = GetCurrentTime(player["lesson"], now)
       /\ UNCHANGED <<sessionVars, lastEnded, pcm, retryCall>>]_vars

\* The position of a player that is playing, past its start, with a
\* callback registered, has just been read.
C29_Witness ==
  /\ lastCall = "getCurrentTime"
  /\ player["lesson"].isPlaying /\ player["lesson"].onEndedCallback = "probe"
  /\ GetCurrentTime(player["lesson"], now) > 0

\* Sample i of the output is the 16-bit signed value of bytes 2i-1 and 2i
\* (low byte first), divided by 32768.
SampleIsScaledInt16(i) ==
  LET word == pcm.bytes[2 * i - 1] + 256 * pcm.bytes[2 * i]
      value == IF word >= 32768 THEN word - 65536 ELSE word
  IN pcm.out[i].num * 32768 = value * pcm.out[i].den

\* C30 (as stated): decoding a byte buffer of any length n gives floor(n/2)
\* samples, each the 16-bit signed value divided by 32768; an odd length
\* drops the final byte instead of failing; decoding the 16-bit encoding
\* of a sample sequence gives that sequence back.
C30_DecodeExact ==
  pcm.st \in {"decoded", "failed"} =>
    /\ pcm.st = "decoded"
    /\ Len(pcm.out) = Len(pcm.bytes) \div 2
    /\ \A i \in 1..Len(pcm.out) : SampleIsScaledInt16(i)
    /\ (pcm.given = "samples" => pcm.out = pcm.samples)

\* C30 (amended): decoding a byte buffer of length n >= 2 gives floor(n/2)
\* samples, each the 16-bit signed value divided by 32768, an odd length
\* dropping the final byte; decoding the 16-bit encoding of a sample
\* sequence that is not empty gives that sequence back; a buffer of fewer
\* than two bytes is rejected.
C30_DecodeExactFromTwoBytes ==
  /\ pcm.st = "failed" => Len(pcm.bytes) < 2
  /\ pcm.st = "decoded" =>
       /\ Len(pcm.bytes) >= 2
       /\ Len(pcm.out) = Len(pcm.bytes) \div 2
       /\ \A i \in 1..Len(pcm.out) : SampleIsScaledInt16(i)
       /\ (pcm.given = "samples" => pcm.out = pcm.samples)

\* A buffer of odd length has been decoded into two samples, the first of
\* them negative.
C30_Witness ==
  /\ pcm.st = "decoded" /\ pcm.given = "bytes"
  /\ Len(pcm.bytes) = 5 /\ Len(pcm.out) = 2
  /\ pcm.out[1].num < 0 /\ pcm.out[2].num > 0

\* C31: the playback rate of the lesson player is 1.0 when the pacing is
\* Normal and 1.25 when the pacing is Fast.
C31_LessonRateAsDocumented ==
  player["lesson"].constructed =>
    player["lesson"].playbackRate = IF pacing = "FAST" THEN 125 ELSE 100

\* C32: at most one source of a player is rendering at any instant, for
\* every sequence of play(), pause() and stop() calls, play() on a player
\* that is already playing included.
C32_OneSourcePerPlayer ==
  \A p \in Players : Cardinality(Rendering(player[p], now)) <= 1

\* C33: the session enters PLAYING from LOADING only when the script, the
\* audio and the quiz have been produced and the lesson audio has been
\* decoded into the lesson player; the speech synthesis and the quiz
\* generation do not run before the script is there (the quiz generation
\* not before the stagger that follows it).
C33_PlayingOnlyWhenLoaded ==
  [][ /\ (state = "LOADING" /\ state' = "PLAYING" =>
            /\ initPc' = "done"
            /\ audioReady' = "ok" /\ quizReady'.st = "ok"
            /\ sessionData'.set /\ sessionData'.quiz = quizReady'.quiz
            /\ player'["lesson"].constructed
            /\ GetDuration(player'["lesson"]) > 0)
      /\ (audioReady' # "pending" => initPc' # "script")
      /\ (quizReady'.st # "pending" => initPc' \notin {"script", "stagger"}) ]_vars

\* The session has just entered PLAYING with a quiz of several questions:
\* the lesson player is loaded and has not been started.
C33_Witness ==
  /\ mounted /\ state = "PLAYING" /\ initPc = "done"
  /\ Len(sessionData.quiz) = MaxSessionQuiz
  /\ GetDuration(player["lesson"]) = LessonDur
  /\ playTimer # NoTimer /\ intr = NoIntr /\ ~player["lesson"].isPlaying

\* The interruption is over for the program and the session has not
\* returned: the state is PROCESSING, the stop request has been handled (its
\* button is not shown), no capture start and no answer-service call is
\* pending and neither player is playing, about to play, or has an end
\* event due.  No step changes the session state from here.
DeadInterruption ==
  /\ mounted /\ state = "PROCESSING"
  /\ capture = 0 /\ answerJobs = 0
  /\ \A p \in Players :
       /\ ~player[p].isPlaying /\ player[p].waiting = <<>>
       /\ \A i \in NodeIds : player[p].nodes[i].st = "free"

\* C34: every interruption terminates: with every capture start, every
\* answer-service call and every playback completing or failing and the
\* stop requested, the session returns to PLAYING; it never stays in
\* PROCESSING for ever, also when the stop request comes before the capture
\* start has completed.  (Stated as the safety property it implies: the
\* session is never in PROCESSING with nothing left that could end it.)
C34_InterruptionTerminates ==
  ~DeadInterruption

\* C35: in every reachable state the lesson track is playing (the lesson
\* player's isPlaying flag is set, or one of its sources renders) only if
\* the session state is PLAYING; a lesson start that was scheduled or waits
\* for the audio context to resume never begins after the state left PLAYING.
C35_LessonPlaysOnlyInPlaying ==
  (player["lesson"].isPlaying \/ Audible("lesson")) => state = "PLAYING"

\* C36: the isRecording flag is true only while the session state is
\* LISTENING; it is false in every other state, PLAYING reached after a
\* capture-start failure and PROCESSING reached by a stop request included.
C36_RecordingFlagOnlyInListening ==
  isRecording => state = "LISTENING"

\* The step is the "ended" event of source i of the lesson player, the
\* source having rendered its buffer to the end.
NaturalEnd(i) ==
  /\ player["lesson"].nodes[i].st = "rendering"
  /\ Exhausted(player["lesson"], i, now)
  /\ player'["lesson"] = OnEndedGuarded(player["lesson"], i)

\* C37: when a player's buffer is exhausted naturally, the player is not
\* playing and its position is zero after the end handler (the state the
\* completion callback sees), so that a later play() starts a source at
\* offset zero.
C37_NaturalEndResets ==
  [][\A i \in NodeIds : NaturalEnd(i) =>
        /\ ~player'["lesson"].isPlaying
        /\ player'["lesson"].pausedAt = 0
        /\ GetCurrentTime(player'["lesson"], now') = 0]_vars

\* The invocations of fn made so far by the call of withRetry.
Invocations == Len(retryCall.log) + IF retryCall.pc = "call" THEN 1 ELSE 0

RECURSIVE Pow2(_)
Pow2(k) == IF k = 0 THEN 1 ELSE 2 * Pow2(k - 1)

\* What holds of a call of withRetry at every moment: see C38.
WithRetryAsClaimed ==
  LET rc == retryCall
      n == Len(rc.log)
      settled == rc.pc \in {"returned", "thrown"}
      retried == IF settled THEN n - 1 ELSE n
  IN /\ Invocations <= rc.given.retries + 1
     /\ \A i \in 1..retried : ~rc.log[i].ok /\ IsRetryable(rc.log[i].error)
     /\ rc.pc = "returned" => rc.log[n].ok /\ rc.result = rc.log[n].value
     /\ rc.pc = "thrown" =>
          /\ ~rc.log[n].ok /\ rc.thrown = rc.log[n].error
          /\ ~IsRetryable(rc.thrown) \/ n = rc.given.retries + 1
     /\ Len(rc.waits) = Invocations - (IF rc.pc = "wait" THEN 0 ELSE 1)
     /\ \A k \in 1..Len(rc.waits) : rc.waits[k] = rc.given.delay * Pow2(k - 1)

\* C38: a call withRetry(fn, retries, delay) invokes fn at most retries + 1
\* times and then has returned or thrown; it returns the value of the first
\* invocation that succeeds and invokes fn no more; it invokes fn again only
\* after a retryable error, and throws the error of the last invocation,
\* which is non-retryable or the error of invocation retries + 1; before
\* the k-th retry it waits delay * 2^(k-1).
C38_WithRetryTerminates ==
  /\ []WithRetryAsClaimed
  /\ <>(retryCall.pc \in {"returned", "thrown"})

\* the default call retried three times, after 1000, 2000 and 4000 ms, and
\* successful at the fourth invocation
C38_Witness ==
  /\ retryCall.pc = "returned"
  /\ retryCall.given = [retries |-> DefaultRetries, delay |-> DefaultDelay]
  /\ Len(retryCall.log) = DefaultRetries + 1
  /\ retryCall.waits = <<1000, 2000, 4000>>

\* C39: in the App shell the presentation mode is 'default' whenever the
\* app state is not TUTORING_SESSION, and no step taken while no session
\* is mounted changes the mode: no mode change of a session is observed
\* after the session has completed.
C39_ModeDefaultOutsideSession ==
  /\ [](appState # "TUTORING_SESSION" => sessionMode = "default")
  /\ [][~mounted /\ ~mounted' => sessionMode' = sessionMode]_vars

\* a session was completed while an answer was being fetched; the answer
\* has arrived since, in the finished view
C39_Witness ==
  /\ appState = "FINISHED" /\ ~mounted /\ Len(results) = 1
  /\ intr.phase = "open" /\ ~intr.answering /\ answerJobs = 0
  /\ player["answer"].isPlaying

====
